---- MODULE Spec2Model ----
(***************************************************************************)
(* A model of data_sampler.py: the session initializer _init_wsd, the      *)
(* device sampler _data_sampler_device, the station walker                 *)
(* data_sampler_stations and the period walker                             *)
(* data_sampler_stations_period, together with the clock, the account's    *)
(* station list as the API holds it, and the files on disk.                *)
(*                                                                         *)
(* Strings that the program builds or takes apart (dates, time stamps,     *)
(* epoch keys, file names, paths) are sequences of string pieces, so that  *)
(* formatting and parsing are computed.  A datetime is a number of seconds *)
(* since 1970-01-01 00:00:00 of the local (naive) calendar.                *)
(***************************************************************************)
EXTENDS Integers, Sequences, FiniteSets, TLC

(***************************************************************************)
(* Bounds of the model.                                                    *)
(***************************************************************************)
\* half-day steps the clock may take
MaxTicks == 3
\* date_start ranges over FirstDay .. FirstDay + MaxStartOffset
MaxStartOffset == 3
\* longest data_type list of a device handed to the device sampler directly
MaxMetrics == 2

(***************************************************************************)
(* Calendar arithmetic of datetime / time, as strptime, strftime,          *)
(* timedelta, lnetatmo.toEpoch and lnetatmo.toTimeString compute it.       *)
(***************************************************************************)
SecsPerDay == 24 * 60 * 60

Digits == <<"0", "1", "2", "3", "4", "5", "6", "7", "8", "9">>

DigitChar(n) == Digits[n + 1]

DigitVal(c) == CHOOSE i \in 0..9 : Digits[i + 1] = c

Pad2(n) == <<DigitChar((n \div 10) % 10), DigitChar(n % 10)>>

Pad4(n) == Pad2(n \div 100) \o Pad2(n % 100)

RECURSIVE IntToStr(_)
IntToStr(n) == IF n < 10 THEN <<DigitChar(n)>>
               ELSE IntToStr(n \div 10) \o <<DigitChar(n % 10)>>

RECURSIVE ParseInt(_)
ParseInt(s) == IF s = <<>> THEN 0
               ELSE 10 * ParseInt(SubSeq(s, 1, Len(s) - 1)) + DigitVal(s[Len(s)])

IsLeap(y) == y % 4 = 0 /\ (y % 100 # 0 \/ y % 400 = 0)

DaysInMonth(y, m) == IF m = 2 THEN (IF IsLeap(y) THEN 29 ELSE 28)
                     ELSE IF m \in {4, 6, 9, 11} THEN 30 ELSE 31

DaysBeforeYear(y) == (y - 1) * 365 + (y - 1) \div 4 - (y - 1) \div 100 + (y - 1) \div 400

RECURSIVE DaysBeforeMonth(_, _)
DaysBeforeMonth(y, m) == IF m = 1 THEN 0
                         ELSE DaysBeforeMonth(y, m - 1) + DaysInMonth(y, m - 1)

\* proleptic Gregorian ordinal of a date, 0001-01-01 being day 1
ymd2ord(y, m, d) == DaysBeforeYear(y) + DaysBeforeMonth(y, m) + d

ord2ymd(n) ==
    LET y == CHOOSE yy \in (n \div 366)..(n \div 365 + 1) :
                 DaysBeforeYear(yy) < n /\ n <= DaysBeforeYear(yy + 1)
        r == n - DaysBeforeYear(y)
        m == CHOOSE mm \in 1..12 :
                 DaysBeforeMonth(y, mm) < r /\ r <= DaysBeforeMonth(y, mm) + DaysInMonth(y, mm)
    IN  <<y, m, r - DaysBeforeMonth(y, m)>>

EpochOrd == ymd2ord(1970, 1, 1)

\* strftime("%Y-%m-%d") of a datetime
strftime_date(t) ==
    LET ymd == ord2ymd(EpochOrd + t \div SecsPerDay)
    IN  Pad4(ymd[1]) \o <<"-">> \o Pad2(ymd[2]) \o <<"-">> \o Pad2(ymd[3])

\* datetime.strptime(s, "%Y-%m-%d"): midnight of the day s names
strptime_date(s) ==
    (ymd2ord(ParseInt(SubSeq(s, 1, 4)), ParseInt(SubSeq(s, 6, 7)),
             ParseInt(SubSeq(s, 9, 10))) - EpochOrd) * SecsPerDay

\* lnetatmo.toEpoch of "<date>_HH:MM:SS"
toEpoch(s) ==
    strptime_date(SubSeq(s, 1, 10))
      + ParseInt(SubSeq(s, 12, 13)) * 3600 + ParseInt(SubSeq(s, 15, 16)) * 60
      + ParseInt(SubSeq(s, 18, 19))

\* lnetatmo.toTimeString of an epoch key of the response
toTimeString(key) ==
    LET t == ParseInt(key)
        s == t % SecsPerDay
    IN  strftime_date(t) \o <<"_">> \o Pad2(s \div 3600) \o <<":">>
          \o Pad2((s % 3600) \div 60) \o <<":">> \o Pad2(s % 60)

\* datetime - timedelta(days = n)
MinusDays(t, n) == t - n * SecsPerDay

\* (d1 - d0).days: whole days, rounded towards minus infinity
TimedeltaDays(d1, d0) == (d1 - d0) \div SecsPerDay

(***************************************************************************)
(* Paths and file names.                                                   *)
(***************************************************************************)
\* os.path.join(a, b)
PathJoin(a, b) == IF b # <<>> /\ b[1] = "/" THEN b
                  ELSE IF a = <<>> \/ a[Len(a)] = "/" THEN a \o b
                  ELSE a \o <<"/">> \o b

\* STOREDIR = os.path.join(THISDIR, 'data')
STOREDIR == PathJoin(<<"THISDIR">>, <<"data">>)

\* the file name without the metric: every metric of a device in one file
FileName_NoMetric(date, name, mtype) == date \o <<"_">> \o name \o <<".csv">>

\* f'{date}_{name}_{mtype}.csv'
FileName(date, name, mtype) == date \o <<"_">> \o name \o <<"_">> \o mtype \o <<".csv">>

(***************************************************************************)
(* The values the model draws its inputs from.                             *)
(***************************************************************************)
Temperature == <<"Temperature">>
Humidity == <<"Humidity">>
Rain == <<"Rain">>

\* modules and stations as the station list of the API describes them
M1 == [id |-> "M1", module_name |-> <<"Rain">>, data_type |-> <<Rain>>]
M2 == [id |-> "M2", module_name |-> <<"Cellar">>, data_type |-> <<Temperature, Humidity>>]
S1 == [id |-> "S1", module_name |-> <<"Outdoor">>, data_type |-> <<Temperature>>,
       modules |-> <<M1>>]
S2 == [id |-> "S2", module_name |-> <<"Indoor">>, data_type |-> <<Temperature, Humidity>>,
       modules |-> <<M2>>]

\* the values of wsd.stations, in the order .values() lists them
StationLists == {<<>>, <<S1>>, <<S1, S2>>}

SeqsUpTo(S, n) == UNION {[1..k -> S] : k \in 0..n}

\* devices a caller hands to the device sampler itself
Devices == {[id |-> "M1", module_name |-> nm, data_type |-> dt] :
               nm \in {<<"Rain">>, <<"A", "_", "B">>},
               dt \in SeqsUpTo({Temperature, Rain}, MaxMetrics)}

HalfDay == SecsPerDay \div 2

\* 2024-02-27 00:00:00, the earliest date_start
FirstDay == (ymd2ord(2024, 2, 27) - EpochOrd) * SecsPerDay

\* the clock at the start: noon of 2024-02-29
Now0 == FirstDay + 2 * SecsPerDay + HalfDay

NowMax == Now0 + MaxTicks * HalfDay

Dates == {strftime_date(FirstDay + k * SecsPerDay) : k \in 0..MaxStartOffset}

Dirs == {<<"out">>}

\* the bodies getMeasure may answer with for a window starting at t0: a mapping
\* from epoch keys to value lists, in the order the answer lists the keys
Bodies(t0) ==
    { <<>>,
      << <<IntToStr(t0), <<21>> >> >>,
      << <<IntToStr(t0), <<21, 3>> >>, <<IntToStr(t0 + 3599), <<22, 4>> >> >>,
      << <<IntToStr(t0 + 3599), <<22>> >>, <<IntToStr(t0), <<21>> >> >> }

\* the table DataFrame(...).to_csv(..., index=False) writes
CsvFile(rows) == [header |-> <<"DateTime", "Value">>, rows |-> rows]

\* a file left by an earlier process
StaleFile == CsvFile(<< <<toTimeString(IntToStr(FirstDay)), 99>> >>)

NoFiles == [p \in {} |-> CsvFile(<<>>)]

NoWsd == [id |-> 0, stations |-> <<>>]

NoDevice == [id |-> "", module_name |-> <<>>, data_type |-> <<>>]

NoPw == [date_start |-> <<>>, dp_save |-> <<>>, wsd |-> NoWsd, n |-> 0, n0 |-> 0,
         today0 |-> <<>>]

NoSw == [caller |-> "", wsd |-> NoWsd, date |-> <<>>, dp_save |-> <<>>,
         stations |-> <<>>, si |-> 1, mi |-> 0]

NoDs == [caller |-> "", wsd |-> NoWsd, base |-> "", device |-> NoDevice, date |-> <<>>,
         dp |-> <<>>, name |-> <<>>, ident |-> "", mtypes |-> <<>>, tstart |-> 0,
         tend |-> 0, i |-> 1, data |-> <<>>]

(***************************************************************************)
(* The state.                                                              *)
(***************************************************************************)
VARIABLES
    pc,        \* where the process stands
    entry,     \* the function the top-level caller called
    err,       \* the exception that reached the top-level caller, "" if none
    now,       \* the clock
    account,   \* the station list the API holds for the account
    fs,        \* the files on disk: path -> table
    nextId,    \* identity of the next WeatherStationData object
    pw,        \* frame of data_sampler_stations_period
    sw,        \* frame of data_sampler_stations
    ds,        \* frame of _data_sampler_device
    inits,     \* calls of _init_wsd
    fetches,   \* station lists the API has served
    walks,     \* calls of data_sampler_stations
    calls,     \* calls of _data_sampler_device
    reqs,      \* getMeasure requests sent
    writes     \* paths written with to_csv

vars == <<pc, entry, err, now, account, fs, nextId, pw, sw, ds, inits, fetches, walks,
          calls, reqs, writes>>

Init ==
    /\ pc = "idle"
    /\ entry = "none"
    /\ err = ""
    /\ now = Now0
    /\ account \in StationLists
    /\ fs \in {NoFiles}
              \cup {[p \in {PathJoin(d, FileName(strftime_date(FirstDay), <<"Rain">>, Rain))}
                       |-> StaleFile] : d \in Dirs}
    /\ nextId = 2
    /\ pw = NoPw
    /\ sw = NoSw
    /\ ds = NoDs
    /\ inits = 0
    /\ fetches = <<>>
    /\ walks = <<>>
    /\ calls = <<>>
    /\ reqs = <<>>
    /\ writes = <<>>

\* datetime.datetime.now(): the clock does not run backwards between two readings
ClockReading(t) == t \in {now, now + HalfDay} /\ t <= NowMax

\* an exception nobody catches: it unwinds every frame up to the top-level caller
Raise(kind) == pc' = "failed" /\ err' = kind

(***************************************************************************)
(* _init_wsd(), lines 30-77.                                               *)
(***************************************************************************)
\* WSD(authorization): the object holds the station list the API serves now
NewWsd == [id |-> nextId, stations |-> account]

\* the call at line 202 (period walker) or 156 (station walker) returns an object
InitWsd ==
    /\ pc \in {"pw_init", "sw_init"}
    /\ inits' = inits + 1
    /\ fetches' = Append(fetches, [walk |-> Len(walks), list |-> account])
    /\ nextId' = nextId + 1
    /\ IF pc = "pw_init"
       THEN pw' = [pw EXCEPT !.wsd = NewWsd] /\ sw' = sw /\ pc' = "pw_days"
       ELSE sw' = [sw EXCEPT !.wsd = NewWsd] /\ pw' = pw /\ pc' = "sw_defaults"
    /\ UNCHANGED <<entry, err, now, account, fs, ds, walks, calls, reqs, writes>>

\* no authorization file, or the authorization is refused
InitWsdFails ==
    /\ pc \in {"pw_init", "sw_init"}
    /\ inits' = inits + 1
    /\ Raise("InitError")
    /\ UNCHANGED <<entry, now, account, fs, nextId, pw, sw, ds, fetches, walks, calls, reqs,
                   writes>>

(***************************************************************************)
(* _data_sampler_device(wsd, base, device, date, dp), lines 79-126.        *)
(***************************************************************************)
\* the parameters of _data_sampler_device, none of which has a default
DeviceSamplerParams == <<"wsd", "base", "device", "date", "dp">>

\* a call of _data_sampler_device with the positional arguments args: the body
\* is entered when every parameter is bound, and the call raises otherwise
CallDeviceSampler(caller, args) ==
    /\ calls' = Append(calls, [caller |-> caller, args |-> args])
    /\ IF Len(args) = Len(DeviceSamplerParams)
       THEN /\ ds' = [NoDs EXCEPT !.caller = caller, !.wsd = args[1], !.base = args[2],
                                  !.device = args[3], !.date = args[4], !.dp = args[5]]
            /\ pc' = "ds_entry"
            /\ err' = err
       ELSE /\ ds' = ds
            /\ Raise("TypeError")

\* lines 108-114
DS_Entry ==
    /\ pc = "ds_entry"
    /\ ds' = [ds EXCEPT !.name = ds.device.module_name,
                        !.ident = ds.device.id,
                        !.mtypes = ds.device.data_type,
                        !.tstart = toEpoch(ds.date \o <<"_", "0", "0", ":", "0", "0", ":", "0", "1">>),
                        !.tend = toEpoch(ds.date \o <<"_", "2", "3", ":", "5", "9", ":", "5", "9">>),
                        !.i = 1]
    /\ pc' = "ds_loop"
    /\ UNCHANGED <<entry, err, now, account, fs, nextId, pw, sw, inits, fetches, walks, calls,
                   reqs, writes>>

\* the request of line 118
MeasureRequest(ok) ==
    [wsd |-> ds.wsd.id, device_id |-> ds.base, module_id |-> ds.ident, scale |-> "max",
     mtype |-> ds.mtypes[ds.i], date_begin |-> ds.tstart, date_end |-> ds.tend,
     ok |-> ok, call |-> Len(calls), walk |-> Len(walks)]

\* lines 116-119: the request for the next metric is answered
DS_GetMeasure ==
    /\ pc = "ds_loop"
    /\ ds.i <= Len(ds.mtypes)
    /\ \E body \in Bodies(ds.tstart) :
          ds' = [ds EXCEPT !.data = body]
    /\ reqs' = Append(reqs, MeasureRequest(TRUE))
    /\ pc' = "ds_write"
    /\ UNCHANGED <<entry, err, now, account, fs, nextId, pw, sw, inits, fetches, walks, calls,
                   writes>>

\* the failure is swallowed and the loop goes on with the next metric
DS_GetMeasureFails_Swallowed ==
    /\ pc = "ds_loop"
    /\ ds.i <= Len(ds.mtypes)
    /\ reqs' = Append(reqs, [wsd |-> ds.wsd.id, device_id |-> ds.base,
                             module_id |-> ds.ident, scale |-> "max",
                             mtype |-> ds.mtypes[ds.i], date_begin |-> ds.tstart,
                             date_end |-> ds.tend, ok |-> FALSE, call |-> Len(calls),
                             walk |-> Len(walks)])
    /\ ds' = [ds EXCEPT !.i = ds.i + 1]
    /\ UNCHANGED <<pc, entry, err, now, account, fs, nextId, pw, sw, inits, fetches, walks,
                   calls, writes>>

\* line 118: the request fails
DS_GetMeasureFails ==
    /\ pc = "ds_loop"
    /\ ds.i <= Len(ds.mtypes)
    /\ reqs' = Append(reqs, MeasureRequest(FALSE))
    /\ Raise("RequestError")
    /\ UNCHANGED <<entry, now, account, fs, nextId, pw, sw, ds, inits, fetches, walks, calls,
                   writes>>

\* the last element of each value list instead of the first
TableRows_LastValue(data) ==
    [k \in 1..Len(data) |->
        <<toTimeString(data[k][1]), data[k][2][Len(data[k][2])]>>]

\* lines 121-124: the two columns of the table, row by row
TableRows(data) ==
    LET datetime == [k \in 1..Len(data) |-> toTimeString(data[k][1])]
        values == [k \in 1..Len(data) |-> data[k][2][1]]
    IN  [k \in 1..Len(data) |-> <<datetime[k], values[k]>>]

\* the path of line 126
CsvPath(dp, date, name, mtype) == PathJoin(dp, FileName(date, name, mtype))

\* to_csv: the file is created or replaced
WriteFile(files, path, content) ==
    [p \in DOMAIN files \cup {path} |-> IF p = path THEN content ELSE files[p]]

\* lines 121-126
DS_WriteCsv ==
    /\ pc = "ds_write"
    /\ LET path == CsvPath(ds.dp, ds.date, ds.name, ds.mtypes[ds.i])
       IN  /\ fs' = WriteFile(fs, path, CsvFile(TableRows(ds.data)))
           /\ writes' = Append(writes, [path |-> path, rows |-> TableRows(ds.data)])
    /\ ds' = [ds EXCEPT !.i = ds.i + 1]
    /\ pc' = "ds_loop"
    /\ UNCHANGED <<entry, err, now, account, nextId, pw, sw, inits, fetches, walks, calls, reqs>>

\* the loop of line 116 is over: back in the station walker, at the next module
\* or the next station, or back at the top-level caller
DS_Return ==
    /\ pc = "ds_loop"
    /\ ds.i > Len(ds.mtypes)
    /\ IF ds.caller = "sw"
       THEN /\ sw' = IF sw.mi < Len(sw.stations[sw.si].modules)
                     THEN [sw EXCEPT !.mi = sw.mi + 1]
                     ELSE [sw EXCEPT !.si = sw.si + 1, !.mi = 0]
            /\ pc' = "sw_loop"
       ELSE /\ sw' = sw
            /\ pc' = "done"
    /\ UNCHANGED <<entry, err, now, account, fs, nextId, pw, ds, inits, fetches, walks, calls,
                   reqs, writes>>

(***************************************************************************)
(* data_sampler_stations(wsd, date, dp_save), lines 129-173.               *)
(***************************************************************************)
\* a session of its own in every call
NeedsSession_Always(wsd) == TRUE

\* line 155: if not wsd
NeedsSession(wsd) == wsd.id = 0

\* lines 155-156
SW_Entry ==
    /\ pc = "sw_entry"
    /\ pc' = IF NeedsSession(sw.wsd) THEN "sw_init" ELSE "sw_defaults"
    /\ UNCHANGED <<entry, err, now, account, fs, nextId, pw, sw, ds, inits, fetches, walks, calls,
                   reqs, writes>>

\* the list the API holds at the moment of the call
StationsOf_Fresh(wsd) == account

\* line 164: stations = wsd.stations
StationsOf(wsd) == wsd.stations

\* lines 158-164
SW_Defaults ==
    /\ pc = "sw_defaults"
    /\ IF sw.date = <<>>
       THEN \E t \in {now, now + HalfDay} :
               /\ ClockReading(t)
               /\ now' = t
               /\ sw' = [sw EXCEPT !.date = strftime_date(MinusDays(t, 1)),
                                   !.dp_save = IF sw.dp_save = <<>> THEN STOREDIR
                                               ELSE sw.dp_save,
                                   !.stations = StationsOf(sw.wsd),
                                   !.si = 1, !.mi = 0]
       ELSE /\ now' = now
            /\ sw' = [sw EXCEPT !.dp_save = IF sw.dp_save = <<>> THEN STOREDIR
                                            ELSE sw.dp_save,
                                !.stations = StationsOf(sw.wsd),
                                !.si = 1, !.mi = 0]
    /\ pc' = "sw_loop"
    /\ UNCHANGED <<entry, err, account, fs, nextId, pw, ds, inits, fetches, walks, calls, reqs,
                   writes>>

\* a station record as the device descriptor of the station itself
AsDevice(station) == [id |-> station.id, module_name |-> station.module_name,
                      data_type |-> station.data_type]

\* the arguments of the calls of lines 169 and 173
DeviceArgs(wsd, base, device, date, dp_save) == <<wsd, base, device, date>>

\* lines 165-173: the station itself first, then its modules
SW_Loop ==
    /\ pc = "sw_loop"
    /\ sw.si <= Len(sw.stations)
    /\ LET station == sw.stations[sw.si]
           base == station.id
           device == IF sw.mi = 0 THEN AsDevice(station) ELSE station.modules[sw.mi]
       IN  CallDeviceSampler("sw", DeviceArgs(sw.wsd, base, device, sw.date, sw.dp_save))
    /\ UNCHANGED <<entry, now, account, fs, nextId, pw, sw, inits, fetches, walks, reqs, writes>>

\* the loop of line 165 is over: back in the period walker (line 215) or back at
\* the top-level caller
SW_Return ==
    /\ pc = "sw_loop"
    /\ sw.si > Len(sw.stations)
    /\ IF sw.caller = "pw"
       THEN pw' = [pw EXCEPT !.n = pw.n - 1] /\ pc' = "pw_loop"
       ELSE pw' = pw /\ pc' = "done"
    /\ UNCHANGED <<entry, err, now, account, fs, nextId, sw, ds, inits, fetches, walks, calls,
                   reqs, writes>>

\* a call of data_sampler_stations
CallStationWalker(caller, wsd, date, dp_save) ==
    /\ sw' = [NoSw EXCEPT !.caller = caller, !.wsd = wsd, !.date = date,
                          !.dp_save = dp_save]
    /\ walks' = Append(walks, [wsd |-> wsd.id, date |-> date, dp_save |-> dp_save])
    /\ pc' = "sw_entry"

(***************************************************************************)
(* data_sampler_stations_period(date_start, dp_save), lines 176-215.       *)
(***************************************************************************)
\* lines 205-208
PW_Days ==
    /\ pc = "pw_days"
    /\ \E d1 \in {now, now + HalfDay} :
          /\ ClockReading(d1)
          /\ now' = d1
          /\ LET d0 == strptime_date(pw.date_start)
                 n == TimedeltaDays(d1, d0)
             IN  pw' = [pw EXCEPT !.n = n, !.n0 = n, !.today0 = strftime_date(d1)]
    /\ pc' = "pw_loop"
    /\ UNCHANGED <<entry, err, account, fs, nextId, sw, ds, inits, fetches, walks, calls, reqs,
                   writes>>

\* line 212
DayToSample(t, n) == strftime_date(MinusDays(t, n))

\* lines 211-214
PW_Iterate ==
    /\ pc = "pw_loop"
    /\ pw.n > 0
    /\ \E t \in {now, now + HalfDay} :
          /\ ClockReading(t)
          /\ now' = t
          /\ CallStationWalker("pw", pw.wsd, DayToSample(t, pw.n), pw.dp_save)
    /\ UNCHANGED <<entry, err, account, fs, nextId, pw, ds, inits, fetches, calls, reqs, writes>>

\* line 211: the loop is over
PW_Return ==
    /\ pc = "pw_loop"
    /\ pw.n <= 0
    /\ pc' = "done"
    /\ UNCHANGED <<entry, err, now, account, fs, nextId, pw, sw, ds, inits, fetches, walks, calls,
                   reqs, writes>>

(***************************************************************************)
(* The top-level caller and the world around the process.                  *)
(***************************************************************************)
\* data_sampler_stations_period(date_start, dp_save), lines 198-199
CallPeriod ==
    /\ pc = "idle"
    /\ \E date_start \in Dates, dp_save \in Dirs \cup {<<>>} :
          pw' = [NoPw EXCEPT !.date_start = date_start,
                             !.dp_save = IF dp_save = <<>> THEN STOREDIR ELSE dp_save]
    /\ entry' = "period"
    /\ pc' = "pw_init"
    /\ UNCHANGED <<err, now, account, fs, nextId, sw, ds, inits, fetches, walks, calls, reqs,
                   writes>>

\* data_sampler_stations(wsd, date, dp_save), each argument given or left out;
\* a given wsd was made by _init_wsd some time before
CallStations ==
    /\ pc = "idle"
    /\ \E wsd \in {NoWsd} \cup {[id |-> 1, stations |-> l] : l \in StationLists},
          date \in Dates \cup {<<>>}, dp_save \in Dirs \cup {<<>>} :
          CallStationWalker("top", wsd, date, dp_save)
    /\ entry' = "stations"
    /\ UNCHANGED <<err, now, account, fs, nextId, pw, ds, inits, fetches, calls, reqs, writes>>

\* _data_sampler_device(wsd, base, device, date, dp)
CallDevice ==
    /\ pc = "idle"
    /\ \E base \in {"S1", "M1"}, device \in Devices, date \in Dates, dp \in Dirs :
          CallDeviceSampler("top", <<[id |-> 1, stations |-> account], base, device,
                                     date, dp>>)
    /\ entry' = "device"
    /\ UNCHANGED <<now, account, fs, nextId, pw, sw, inits, fetches, walks, reqs, writes>>

\* the account's station list changes at the API; only the walkers look at it
AccountChanges ==
    /\ entry \in {"period", "stations"}
    /\ pc \notin {"done", "failed"}
    /\ \E l \in StationLists \ {account} : account' = l
    /\ UNCHANGED <<pc, entry, err, now, fs, nextId, pw, sw, ds, inits, fetches, walks, calls,
                   reqs, writes>>

Next ==
    \/ CallPeriod
    \/ CallStations
    \/ CallDevice
    \/ AccountChanges
    \/ InitWsd
    \/ InitWsdFails
    \/ PW_Days
    \/ PW_Iterate
    \/ PW_Return
    \/ SW_Entry
    \/ SW_Defaults
    \/ SW_Loop
    \/ SW_Return
    \/ DS_Entry
    \/ DS_GetMeasure
    \/ DS_GetMeasureFails
    \/ DS_WriteCsv
    \/ DS_Return

Spec == Init /\ [][Next]_vars

(***************************************************************************)
(* Properties.                                                             *)
(***************************************************************************)
EndsWith(p, f) == Len(p) >= Len(f) /\ SubSeq(p, Len(p) - Len(f) + 1, Len(p)) = f

StartsWith(p, d) == Len(p) >= Len(d) /\ SubSeq(p, 1, Len(d)) = d

\* days from date_start to the day the period walker read as today (line 206),
\* zero when date_start is not before that day
DaysFromStartToToday ==
    LET d0 == strptime_date(pw.date_start)
        t0 == strptime_date(pw.today0)
    IN  IF d0 < t0 THEN (t0 - d0) \div SecsPerDay ELSE 0

\* date_start, date_start + 1, ..., the day before today
DatesFromStartToYesterday ==
    [k \in 1..DaysFromStartToToday |->
        strftime_date(strptime_date(pw.date_start) + (k - 1) * SecsPerDay)]

\* (parent id, device) of every station and module of a station list, each
\* station before its modules
RECURSIVE DevicesInOrder(_)
DevicesInOrder(stations) ==
    IF stations = <<>> THEN <<>>
    ELSE LET st == Head(stations)
         IN  << <<st.id, AsDevice(st)>> >>
               \o [k \in 1..Len(st.modules) |-> <<st.id, st.modules[k]>>]
               \o DevicesInOrder(Tail(stations))

\* the directory the last station walker call was to write to
WalkOutputDir ==
    LET given == walks[Len(walks)].dp_save
    IN  IF given = <<>> THEN STOREDIR ELSE given

\* a walker run is over and neither the session nor a request failed in it
WalkEndedWithoutFailure ==
    /\ pc \in {"done", "failed"}
    /\ err # "InitError"
    /\ \A k \in 1..Len(reqs) : reqs[k].ok

\* C1: a period walker run that got its session calls the station walker
\* exactly n times, n the whole days from date_start to today, when date_start
\* is before today, and not at all when date_start is today or later.
C1_WalkerCalledOncePerDay ==
    (entry = "period" /\ pc \in {"done", "failed"} /\ err # "InitError")
        => Len(walks) = DaysFromStartToToday

\* C2: the dates a period walker run passes to the station walker are
\* date_start, date_start + 1, ..., yesterday, each once and in ascending
\* order, and never the day that was today when the run read the clock first,
\* whenever the clock is read afterwards.
C2_DatesFromStartToYesterday ==
    (entry = "period" /\ pw.today0 # <<>>)
        => /\ \A k \in 1..Len(walks) :
                 /\ k <= DaysFromStartToToday
                 /\ walks[k].date = DatesFromStartToYesterday[k]
                 /\ walks[k].date # pw.today0
           /\ pc \in {"done", "failed"} => Len(walks) = DaysFromStartToToday

\* C3: a station walker call in which no request fails returns after calling
\* the device sampler once for every station and once for every module, each
\* station before its modules and the modules in listed order, and then a file
\* exists for every (date, device name, metric).
C3_WalkSamplesEveryDevice ==
    (entry = "stations" /\ WalkEndedWithoutFailure)
        => /\ pc = "done"
           /\ LET order == DevicesInOrder(sw.stations)
              IN  /\ Len(calls) = Len(order)
                  /\ \A k \in 1..Len(order) :
                        /\ calls[k].args[2] = order[k][1]
                        /\ calls[k].args[3] = order[k][2]
                        /\ \A j \in 1..Len(order[k][2].data_type) :
                              \E p \in DOMAIN fs :
                                 EndsWith(p, FileName(sw.date, order[k][2].module_name,
                                                      order[k][2].data_type[j]))

\* C4: every request sent for a module during a walker run carries the
\* identifier of the station that lists the module as device_id and the
\* module's identifier as module_id, and a station's own request carries the
\* station's identifier as both.
C4_ModuleRequestsUseOwningStation ==
    \A k \in 1..Len(reqs) :
       (entry \in {"stations", "period"} /\ reqs[k].walk = Len(walks))
           => \E s \in 1..Len(sw.stations) :
                 /\ reqs[k].device_id = sw.stations[s].id
                 /\ \/ reqs[k].module_id = sw.stations[s].id
                    \/ \E m \in 1..Len(sw.stations[s].modules) :
                          reqs[k].module_id = sw.stations[s].modules[m].id

\* C5 as stated: a device sampler call over a data_type list of k entries, every
\* request answered, produces exactly k files.
C5_ExactlyKFiles ==
    (entry = "device" /\ pc = "done")
        => Cardinality({writes[j].path : j \in 1..Len(writes)})
             = Len(calls[1].args[3].data_type)

\* C5 as amended: such a call writes exactly k times, the j-th time to
\* dp/{date}_{device name}_{j-th listed metric}.csv, so that it produces one
\* file per distinct listed metric: k files when no metric is listed twice.
C5_OneWritePerListedMetric ==
    (entry = "device" /\ pc = "done")
        => LET date == calls[1].args[4]
               device == calls[1].args[3]
               dp == calls[1].args[5]
               k == Len(device.data_type)
               named(j) == date \o <<"_">> \o device.module_name \o <<"_">>
                             \o device.data_type[j] \o <<".csv">>
           IN  /\ Len(writes) = k
               /\ \A j \in 1..k :
                     /\ writes[j].path = dp \o <<"/">> \o named(j)
                     /\ writes[j].path \in DOMAIN fs
               /\ Cardinality({writes[j].path : j \in 1..k})
                    = Cardinality({device.data_type[j] : j \in 1..k})

\* two metrics listed, two files produced
C5_Witness ==
    /\ entry = "device"
    /\ pc = "done"
    /\ Len(calls[1].args[3].data_type) = 2
    /\ Len(writes) = 2
    /\ writes[1].path # writes[2].path

\* C6: when a walker run ends and neither the session nor a request failed,
\* every file of the last day walked, one per device and metric, lies in the
\* output directory the caller passed, or in STOREDIR when none was passed, no
\* file was written elsewhere, and a period walker has passed its own
\* directory to every daily walk.
C6_FilesInOutputDir ==
    (entry \in {"stations", "period"} /\ Len(walks) > 0 /\ WalkEndedWithoutFailure)
        => /\ \A k \in 1..Len(walks) :
                 entry = "period" => walks[k].dp_save = pw.dp_save
           /\ \A j \in 1..Len(writes) : StartsWith(writes[j].path, WalkOutputDir)
           /\ LET order == DevicesInOrder(sw.stations)
              IN  \A k \in 1..Len(order) :
                     \A j \in 1..Len(order[k][2].data_type) :
                        PathJoin(WalkOutputDir,
                                 FileName(sw.date, order[k][2].module_name,
                                          order[k][2].data_type[j])) \in DOMAIN fs

\* C7: the file the device sampler has just written holds the header and one
\* row per key of the response, in the order of the response: the time string
\* that names the second the key counts, and the first element of the key's
\* value list; for an empty response it holds the header alone.
C7_TableMirrorsResponse ==
    (pc = "ds_loop" /\ ds.i > 1)
        => LET f == fs[writes[Len(writes)].path]
               data == ds.data
           IN  /\ f.header = <<"DateTime", "Value">>
               /\ Len(f.rows) = Len(data)
               /\ \A k \in 1..Len(data) :
                     /\ Len(f.rows[k][1]) = 19
                     /\ toEpoch(f.rows[k][1]) = ParseInt(data[k][1])
                     /\ f.rows[k][2] = Head(data[k][2])
               /\ data = <<>> => f.rows = <<>>

\* a response of two keys, each with a second value, has been written
C7_Witness ==
    /\ pc = "ds_loop"
    /\ ds.i > 1
    /\ Len(ds.data) = 2
    /\ Len(ds.data[1][2]) = 2
    /\ Len(fs[writes[Len(writes)].path].rows) = 2

\* C8: a failed request is the last request of the run: the exception is with
\* the top-level caller, the device sampler call, the daily walk and the run
\* it was sent in are the last ones, every earlier request has its file and the
\* failed one has none; and every file written in the run is still there with
\* the rows of the last write to its path.
C8_FailFastNoRollback ==
    /\ \A k \in 1..Len(reqs) :
          ~reqs[k].ok
             => /\ k = Len(reqs)
                /\ pc = "failed"
                /\ err = "RequestError"
                /\ reqs[k].call = Len(calls)
                /\ reqs[k].walk = Len(walks)
                /\ Len(writes) = k - 1
    /\ \A j \in 1..Len(writes) :
          /\ writes[j].path \in DOMAIN fs
          /\ (\A l \in (j + 1)..Len(writes) : writes[l].path # writes[j].path)
                => fs[writes[j].path].rows = writes[j].rows

\* a request failed after the file of an earlier metric had been written
C8_Witness ==
    /\ err = "RequestError"
    /\ Len(reqs) = 2
    /\ ~reqs[2].ok
    /\ Len(writes) = 1
    /\ writes[1].path \in DOMAIN fs

\* C9: a period walker run calls _init_wsd once, before its first daily walk,
\* and every daily walk and every request of the run uses the object that call
\* returned; a station walker call makes a session of its own only when it was
\* given none.
C9_OneSessionPerRun ==
    /\ entry = "period"
          => /\ inits <= 1
             /\ pc = "done" => inits = 1
             /\ Len(walks) > 0
                   => /\ inits = 1
                      /\ pw.wsd.id # 0
                      /\ sw.wsd = pw.wsd
                      /\ \A k \in 1..Len(walks) : walks[k].wsd = pw.wsd.id
             /\ \A k \in 1..Len(reqs) : reqs[k].wsd = pw.wsd.id
    /\ entry = "stations"
          => IF walks[1].wsd = 0
             THEN /\ inits <= 1
                  /\ pc \in {"sw_defaults", "sw_loop", "done"} => inits = 1 /\ sw.wsd.id # 0
             ELSE /\ inits = 0
                  /\ sw.wsd.id = walks[1].wsd

\* the second daily walk of a period run, on the session made once
C9_Witness ==
    /\ entry = "period"
    /\ pc = "sw_loop"
    /\ Len(walks) = 2
    /\ inits = 1
    /\ walks[2].wsd = pw.wsd.id

\* C10 as stated: the station list a walk iterates over is one the API served
\* during that walk.
C10_ListFetchedInEachWalk ==
    pc = "sw_loop"
        => \E f \in 1..Len(fetches) :
              fetches[f].walk = Len(walks) /\ fetches[f].list = sw.stations

\* C10 as amended: a walk iterates over the station list its session object
\* holds.  In a period run the API serves the list once, when the session is
\* made before the first walk, and every daily walk iterates over that list;
\* a station walker call given no session iterates over the list served when it
\* made its own, and one given a session causes no list to be served.
C10_ListOfTheSession ==
    /\ (entry = "period" /\ Len(walks) > 0)
          => /\ Len(fetches) = 1
             /\ fetches[1].walk = 0
             /\ pc = "sw_loop" => sw.stations = fetches[1].list
    /\ (entry = "stations" /\ pc = "sw_loop")
          => IF walks[1].wsd = 0
             THEN /\ Len(fetches) = 1
                  /\ fetches[1].walk = 1
                  /\ sw.stations = fetches[1].list
             ELSE /\ fetches = <<>>
                  /\ sw.stations = sw.wsd.stations

\* the second daily walk iterates over a list that the API no longer holds
C10_Witness ==
    /\ entry = "period"
    /\ pc = "sw_loop"
    /\ Len(walks) = 2
    /\ sw.stations # account

====
